---- MODULE Spec2Model ----
(***************************************************************************)
(* Recurrence-and-intake engine of Pills_bot: the per-minute reminder tick *)
(* (scheduler.send_reminders), the follow-up tick, the evening sweep and   *)
(* the confirmation callbacks, over the intake_logs and schedules tables.  *)
(*                                                                         *)
(* Time is counted in whole hours.  `now` is the UTC instant; an aware     *)
(* datetime of the process-wide timezone is written by isoformat() as its  *)
(* local wall-clock reading followed by the UTC offset, and is modelled by *)
(* the local reading (the offset is the fixed TzOffsetHours).  Python's    *)
(* .date() keeps the local reading, SQLite's date()/datetime() subtract    *)
(* the offset first.  Dates are day numbers, day 1 = 2024-01-01 (Monday).  *)
(* Every step of a coroutine is the code between two database awaits.      *)
(***************************************************************************)
EXTENDS Integers, Sequences, FiniteSets, TLC

\* ------------------------------------------------------------------ bounds
MaxTicks == 8
DateWindow == 6
MaxLogs == 2
MaxConfirms == 2
RuleDays == 91

\* ------------------------------------------------------- program constants
REMINDER_CUTOFF_HOUR == 21
EveningHour == 20
TzOffsetHours == 3
HoursPerDay == 24
FollowupHours == 1

\* ------------------------------------------------------------ input domains
SchedIds == {1, 2}
Users == {1, 2}
Runs == {1, 2}
Handlers == {1, 2}
Intents == {"taken", "missed"}
NoTime == -1
NoDate == 0
StartDay == 8

VARIABLES now, schedules, logs, rem, fol, eve, conf, answer, emitted, nconf, wizard,
          notified

vars == <<now, schedules, logs, rem, fol, eve, conf, answer, emitted, nconf, wizard,
          notified>>

\* ------------------------------------------------------------ time helpers
\* datetime.now(TZ): the local wall-clock reading of the UTC instant
get_now == now + TzOffsetHours

\* .date() of an aware local datetime, as a day number
DateOf(t) == t \div HoursPerDay

\* strftime("%H:%M") of an aware local datetime
TimeOf(t) == t % HoursPerDay

get_today == DateOf(get_now)

\* SQLite datetime(text): a text with a UTC offset is normalised to UTC
SqliteDatetime(t) == t - TzOffsetHours

\* SQLite date(text)
SqliteDate(t) == DateOf(SqliteDatetime(t))

\* SQLite date('now') / datetime('now')
SqliteNow == now

\* date.today(): the date of the operating system's zone, which the
\* deployment sets to UTC or to the bot's zone
SystemTodays == {DateOf(now), DateOf(now + TzOffsetHours)}

\* the local hours at which the clock is looked at: around the schedule
\* times, the follow-up threshold, the sweep and the cutoff
ClockHours == {0, 1, 2, 3, 8, 9, 20, 21}

RECURSIVE NextClock(_)
NextClock(t) ==
    IF TimeOf(t + 1 + TzOffsetHours) \in ClockHours THEN t + 1 ELSE NextClock(t + 1)

StartNow == StartDay * HoursPerDay - TzOffsetHours

RECURSIVE ClockAfter(_)
ClockAfter(n) == IF n = 0 THEN StartNow ELSE NextClock(ClockAfter(n - 1))

\* ---------------------------------------------------------------- calendar
IsoWeekday(d) == ((d - 1) % 7) + 1

MonthLengths == <<31, 29, 31, 30, 31, 30, 31, 31, 30, 31, 30, 31>>

RECURSIVE DayInMonth(_, _)
DayInMonth(d, m) ==
    IF m > 12 THEN DayInMonth(d - 1, 1)
    ELSE IF d <= MonthLengths[m] THEN d ELSE DayInMonth(d - MonthLengths[m], m + 1)

\* date.day of day number d (d >= 1); years after 2024 reuse its month lengths
DayOfMonth(d) == DayInMonth(((d - 1) % 366) + 1, 1)

\* ---------------------------------------------------------- recurrence rule
\* the recurrence rule without the days_passed >= 0 test
ShouldRemindNoSign(s, d) ==
    LET interval_days == IF s.interval_days = 0 THEN 1 ELSE s.interval_days
        days_passed == d - s.start_date
    IN  CASE s.frequency = "daily" -> TRUE
          [] s.frequency \in {"weekly", "specific_days"} -> IsoWeekday(d) \in s.days
          [] s.frequency = "monthly" -> DayOfMonth(d) \in s.days
          [] s.frequency = "interval" ->
                IF s.start_date # NoDate THEN days_passed % interval_days = 0 ELSE TRUE
          [] OTHER -> FALSE

\* the recurrence rule with date.weekday() (Monday = 0) for isoweekday()
ShouldRemindWeekday0(s, d) ==
    LET interval_days == IF s.interval_days = 0 THEN 1 ELSE s.interval_days
        days_passed == d - s.start_date
    IN  CASE s.frequency = "daily" -> TRUE
          [] s.frequency \in {"weekly", "specific_days"} -> (IsoWeekday(d) - 1) \in s.days
          [] s.frequency = "monthly" -> DayOfMonth(d) \in s.days
          [] s.frequency = "interval" ->
                IF s.start_date # NoDate
                THEN days_passed >= 0 /\ days_passed % interval_days = 0
                ELSE TRUE
          [] OTHER -> FALSE

\* the recurrence rule with the monthly day clamped to the end of a month
\* that is shorter than it
ShouldRemindClamped(s, d) ==
    LET interval_days == IF s.interval_days = 0 THEN 1 ELSE s.interval_days
        days_passed == d - s.start_date
    IN  CASE s.frequency = "daily" -> TRUE
          [] s.frequency \in {"weekly", "specific_days"} -> IsoWeekday(d) \in s.days
          [] s.frequency = "monthly" ->
                \/ DayOfMonth(d) \in s.days
                \/ DayOfMonth(d + 1) = 1 /\ \E k \in s.days : k > DayOfMonth(d)
          [] s.frequency = "interval" ->
                IF s.start_date # NoDate
                THEN days_passed >= 0 /\ days_passed % interval_days = 0
                ELSE TRUE
          [] OTHER -> FALSE

\* the recurrence rule taking a missing start_date for the first day of the
\* calendar
ShouldRemindNullAnchor(s, d) ==
    LET interval_days == IF s.interval_days = 0 THEN 1 ELSE s.interval_days
        days_passed == d - s.start_date
    IN  CASE s.frequency = "daily" -> TRUE
          [] s.frequency \in {"weekly", "specific_days"} -> IsoWeekday(d) \in s.days
          [] s.frequency = "monthly" -> DayOfMonth(d) \in s.days
          [] s.frequency = "interval" ->
                days_passed >= 0 /\ days_passed % interval_days = 0
          [] OTHER -> FALSE

\* the should_remind computation of get_schedules_for_time for row s, date d
\* (a frequency that is NULL or empty reads as "daily", an interval_days
\* that is NULL or 0 as 1)
ShouldRemind(s, d) ==
    LET frequency == IF s.frequency = "" THEN "daily" ELSE s.frequency
        interval_days == IF s.interval_days = 0 THEN 1 ELSE s.interval_days
        days_passed == d - s.start_date
    IN  CASE frequency = "daily" -> TRUE
          [] frequency \in {"weekly", "specific_days"} -> IsoWeekday(d) \in s.days
          [] frequency = "monthly" -> DayOfMonth(d) \in s.days
          [] frequency = "interval" ->
                IF s.start_date # NoDate
                THEN days_passed >= 0 /\ days_passed % interval_days = 0
                ELSE TRUE
          [] OTHER -> FALSE

\* the should_remind computation of get_schedules_for_time_range
ShouldRemindInRange(s, d) ==
    LET frequency == IF s.frequency = "" THEN "daily" ELSE s.frequency
        interval_days == IF s.interval_days = 0 THEN 1 ELSE s.interval_days
        days_passed == d - s.start_date
    IN  CASE frequency = "daily" -> TRUE
          [] frequency \in {"weekly", "specific_days"} -> IsoWeekday(d) \in s.days
          [] frequency = "monthly" -> DayOfMonth(d) \in s.days
          [] frequency = "interval" ->
                IF s.start_date # NoDate
                THEN days_passed >= 0 /\ days_passed % interval_days = 0
                ELSE TRUE
          [] OTHER -> FALSE

\* the should_show computation of get_user_today_schedule
should_show(s, d) ==
    LET frequency == IF s.frequency = "" THEN "daily" ELSE s.frequency
        interval_days == IF s.interval_days = 0 THEN 1 ELSE s.interval_days
        days_passed == d - s.start_date
    IN  CASE frequency = "daily" -> TRUE
          [] frequency \in {"weekly", "specific_days"} -> IsoWeekday(d) \in s.days
          [] frequency = "monthly" -> DayOfMonth(d) \in s.days
          [] frequency = "interval" ->
                IF s.start_date # NoDate
                THEN days_passed >= 0 /\ days_passed % interval_days = 0
                ELSE TRUE
          [] OTHER -> FALSE

\* ------------------------------------------------------------ seq helpers
RECURSIVE SetToSeq(_)
SetToSeq(S) ==
    IF S = {} THEN <<>>
    ELSE LET m == CHOOSE x \in S : \A y \in S : x <= y
         IN  <<m>> \o SetToSeq(S \ {m})

RECURSIVE UniqueKeys(_)
UniqueKeys(s) ==
    IF s = <<>> THEN <<>>
    ELSE LET r == UniqueKeys(SubSeq(s, 1, Len(s) - 1))
             x == s[Len(s)]
         IN  IF \E i \in 1..Len(r) : r[i] = x THEN r ELSE Append(r, x)

Range(s) == {s[i] : i \in 1..Len(s)}

LogIds == 1..Len(logs)

\* ------------------------------------------------------------ table queries
\* a schedules row is `present` while it, its pills row and its users row
\* are in their tables: the selections below reach it through
\* JOIN schedules ... JOIN pills ... JOIN users, which leave out the records
\* and the schedules of a deleted row

\* the selection without its s.time = ? condition
get_schedules_for_timeAnyTime(time_str, current_date) ==
    SetToSeq({sid \in SchedIds :
                /\ schedules[sid].is_active
                /\ schedules[sid].present
                /\ ShouldRemind(schedules[sid], current_date)})

\* get_schedules_for_time: active rows with s.time = time_str that are due
get_schedules_for_time(time_str, current_date) ==
    SetToSeq({sid \in SchedIds :
                /\ schedules[sid].time = time_str
                /\ schedules[sid].is_active
                /\ schedules[sid].present
                /\ ShouldRemind(schedules[sid], current_date)})

\* ORDER BY s.time: the rows by ascending time, rows of one time by id
RECURSIVE OrderByTime(_)
OrderByTime(S) ==
    IF S = {} THEN <<>>
    ELSE LET m == CHOOSE x \in S : \A y \in S :
                      \/ schedules[x].time < schedules[y].time
                      \/ schedules[x].time = schedules[y].time /\ x <= y
         IN  <<m>> \o OrderByTime(S \ {m})

\* the range selection with s.time < time_to for s.time <= time_to
get_schedules_for_time_rangeHalfOpen(time_from, time_to, current_date) ==
    OrderByTime({sid \in SchedIds :
                   /\ schedules[sid].time >= time_from
                   /\ schedules[sid].time < time_to
                   /\ schedules[sid].is_active
                   /\ schedules[sid].present
                   /\ ShouldRemindInRange(schedules[sid], current_date)})

\* get_schedules_for_time_range: active rows with time_from <= s.time <=
\* time_to that are due, ordered by time
get_schedules_for_time_range(time_from, time_to, current_date) ==
    OrderByTime({sid \in SchedIds :
                   /\ schedules[sid].time >= time_from
                   /\ schedules[sid].time <= time_to
                   /\ schedules[sid].is_active
                   /\ schedules[sid].present
                   /\ ShouldRemindInRange(schedules[sid], current_date)})

\* check_existing_log: a row with that schedule and date(scheduled_time)
check_existing_log(schedule_id, scheduled_date) ==
    \E id \in LogIds :
        /\ logs[id].schedule_id = schedule_id
        /\ SqliteDate(logs[id].scheduled_time) = scheduled_date

\* the row create_intake_log inserts
NewLog(schedule_id, scheduled_time) ==
    [schedule_id |-> schedule_id, scheduled_time |-> scheduled_time,
     taken_at |-> NoTime, status |-> "pending",
     reminder_count |-> 0, last_reminder_at |-> NoTime]

\* the key with the chat alone
KeyOfChatOnly(id) == <<schedules[logs[id].schedule_id].chat_id>>

\* the (chat_id, telegram_id) key of a log's schedule -> pill -> user chain
KeyOf(id) ==
    <<schedules[logs[id].schedule_id].chat_id,
      schedules[logs[id].schedule_id].telegram_id>>

\* the dict putting each new entry at the front of its key's list
GroupByKeyPrepend(ids, ks) ==
    LET keys == UniqueKeys(ks)
        at(g) == SelectSeq([i \in 1..Len(ids) |-> i], LAMBDA i : ks[i] = keys[g])
    IN  [g \in 1..Len(keys) |->
            [j \in 1..Len(at(g)) |-> ids[at(g)[Len(at(g)) - j + 1]]]]

\* the user_pills / user_logs dict: one list per key, in first-seen order;
\* ks[i] is the key of ids[i]
GroupByKey(ids, ks) ==
    LET keys == UniqueKeys(ks)
        at(g) == SelectSeq([i \in 1..Len(ids) |-> i], LAMBDA i : ks[i] = keys[g])
    IN  [g \in 1..Len(keys) |-> [j \in 1..Len(at(g)) |-> ids[at(g)[j]]]]

\* build_pills_text_and_keyboard on the "pills" list of a group: one text
\* line per pill in list order (after the header line), one button row per
\* pill whose status is "pending", in list order
build_pills_text_and_keyboard(pills) ==
    LET pending == SelectSeq(pills, LAMBDA p : p.status = "pending")
    IN  [text |-> [i \in 1..Len(pills) |-> pills[i].id],
         buttons |-> [i \in 1..Len(pending) |-> pending[i].id]]

\* the "pills" list the three jobs build for a group of log ids: each entry
\* carries the id and the literal status "pending"
PillsOf(group) == [i \in 1..Len(group) |-> [id |-> group[i], status |-> "pending"]]

\* the follow-up selection without its reminder_count = 0 condition
get_logs_for_followup_reminderAnyCount(hours_ago) ==
    SetToSeq({id \in LogIds :
                /\ schedules[logs[id].schedule_id].present
                /\ logs[id].status = "pending"
                /\ SqliteDate(logs[id].scheduled_time) = DateOf(SqliteNow)
                /\ SqliteDatetime(logs[id].scheduled_time) + hours_ago <= SqliteNow})

\* the follow-up selection without its status = 'pending' condition
get_logs_for_followup_reminderAnyStatus(hours_ago) ==
    SetToSeq({id \in LogIds :
                /\ schedules[logs[id].schedule_id].present
                /\ SqliteDate(logs[id].scheduled_time) = DateOf(SqliteNow)
                /\ logs[id].reminder_count = 0
                /\ SqliteDatetime(logs[id].scheduled_time) + hours_ago <= SqliteNow})

\* get_logs_for_followup_reminder(hours_ago)
get_logs_for_followup_reminder(hours_ago) ==
    SetToSeq({id \in LogIds :
                /\ schedules[logs[id].schedule_id].present
                /\ logs[id].status = "pending"
                /\ SqliteDate(logs[id].scheduled_time) = DateOf(SqliteNow)
                /\ logs[id].reminder_count = 0
                /\ SqliteDatetime(logs[id].scheduled_time) + hours_ago <= SqliteNow})

\* the chat_ids query of send_evening_reminders
EveningChats(today) ==
    SetToSeq({schedules[logs[id].schedule_id].chat_id : id \in
                {i \in LogIds : /\ schedules[logs[i].schedule_id].present
                                /\ logs[i].status = "pending"
                                /\ SqliteDate(logs[i].scheduled_time) = today}})

\* get_pending_logs_for_today(chat_id), with date.today() = today
get_pending_logs_for_today(chat_id, today) ==
    SetToSeq({id \in LogIds :
                /\ schedules[logs[id].schedule_id].present
                /\ schedules[logs[id].schedule_id].chat_id = chat_id
                /\ logs[id].status = "pending"
                /\ SqliteDate(logs[id].scheduled_time) = today})

\* update_intake_status(log_id, status, taken_at): taken_at is written only
\* when one is passed
update_intake_status(log_id, status, taken_at) ==
    [logs EXCEPT ![log_id].status = status,
                 ![log_id].taken_at = IF taken_at # NoTime THEN taken_at ELSE @]

\* update_reminder_count(log_id, reminder_time)
update_reminder_count(log_id, reminder_time) ==
    [logs EXCEPT ![log_id].reminder_count = @ + 1,
                 ![log_id].last_reminder_at = reminder_time]

\* the UPDATE of start_date without its WHERE id = ?
update_schedule_start_dateEveryRow(schedule_id, new_start_date) ==
    [sid \in SchedIds |-> [schedules[sid] EXCEPT !.start_date = new_start_date]]

\* update_schedule_start_date(schedule_id, new_start_date)
update_schedule_start_date(schedule_id, new_start_date) ==
    [schedules EXCEPT ![schedule_id].start_date = new_start_date]

\* -------------------------------------------------------------- init state
IdleRem == [pc |-> "idle", now |-> NoTime, todo |-> <<>>, pills |-> <<>>, out |-> <<>>]
IdleFol == [pc |-> "idle", now |-> NoTime, out |-> <<>>, upd |-> <<>>, failed |-> {}]
IdleEve == [pc |-> "idle", now |-> NoTime, chats |-> <<>>, out |-> <<>>, upd |-> <<>>]
\* the follow-up messages and the sweep messages delivered so far that
\* included the record of each id (the "Sent follow-up reminder" / "Sent
\* evening reminder" lines of the log)
NoneNotified ==
    [followup |-> [id \in 1..(MaxLogs + 1) |-> 0], sweep |-> [id \in 1..(MaxLogs + 1) |-> 0]]

\* one more delivered message for each id of the group
Counted(counts, group) ==
    [id \in DOMAIN counts |-> IF id \in Range(group) THEN counts[id] + 1 ELSE counts[id]]

\* the FSM context of the /addpill conversation: its state and the data
\* update_data has put in it (state.clear() empties both)
IdleWizard ==
    [state |-> "none", user |-> 0, frequency |-> "none", days |-> {}, interval_days |-> 0]

IdleConf ==
    [pc |-> "idle", intent |-> "none", log_id |-> 0, schedule_id |-> 0,
     frequency |-> "none", now |-> NoTime]

\* the rows add_schedule can have stored (save_pill's wizard values)
ScheduleRow(time, frequency, days, interval_days, start_date, telegram_id) ==
    [time |-> time, days |-> days, frequency |-> frequency,
     interval_days |-> interval_days, start_date |-> start_date, is_active |-> TRUE,
     telegram_id |-> telegram_id, chat_id |-> 10, present |-> TRUE]

\* schedule 1 is daily at 01:00 (an hour whose UTC date is the day before),
\* schedule 2 every second day at 08:00, of the same or of another user,
\* created today or two days ago
InitSchedules ==
    { [sid \in SchedIds |->
         IF sid = 1 THEN ScheduleRow(1, "daily", {1, 2, 3, 4, 5, 6, 7}, 1, StartDay, 1)
         ELSE ScheduleRow(8, "interval", {}, 2, StartDay - 2, u)] : u \in Users }

Init ==
    /\ now = StartNow
    /\ schedules \in InitSchedules
    /\ logs = <<>>
    /\ rem = [r \in Runs |-> IdleRem]
    /\ fol = IdleFol
    /\ eve = IdleEve
    /\ conf = [h \in Handlers |-> IdleConf]
    /\ answer = "none"
    /\ nconf = 0
    /\ emitted = {}
    /\ wizard = IdleWizard
    /\ notified = NoneNotified

\* ------------------------------------------------------------------- clock
\* a coroutine is a matter of moments: the clock reading changes at most
\* once while one is between two of its awaits
Fresh(run) == run.pc = "idle" \/ run.now = get_now

\* the cron trigger of the sweep (scheduler.py lines 54-62) has fired before
\* its hour is over
SweepFired == TimeOf(get_now) = EveningHour => eve.now = get_now

Tick ==
    /\ now < ClockAfter(MaxTicks)
    /\ SweepFired
    /\ \A r \in Runs : Fresh(rem[r])
    /\ \A h \in Handlers : Fresh(conf[h])
    /\ Fresh(fol) /\ Fresh(eve)
    /\ now' = NextClock(now)
    /\ UNCHANGED <<schedules, logs, rem, fol, eve, conf, emitted, nconf, wizard, notified>>
    /\ answer' = "none"


\* ------------------------------------------------- send_reminders (run r)
\* the key of a schedule row, as read by the tick
ScheduleKey(p) ==
    <<schedules[p.schedule_id].chat_id, schedules[p.schedule_id].telegram_id>>

PillIds(ps) == [i \in 1..Len(ps) |-> ps[i].id]

\* user_pills taking in every stored record next to the ones just created
UserPillsWithStored(pills) ==
    << SetToSeq(LogIds \cup Range(PillIds(pills))) >>

\* user_pills: the created logs, one list of log ids per key
UserPills(pills) ==
    LET g == GroupByKey(pills, [i \in 1..Len(pills) |-> ScheduleKey(pills[i])])
    IN  [i \in 1..Len(g) |-> PillIds(g[i])]

\* the run going on to one send although its loop has created nothing
AfterLoopEmptyMessage(run, pills) ==
    [run EXCEPT !.pc = "send", !.todo = <<>>, !.pills = pills,
                !.out = IF pills = <<>> THEN << <<>> >> ELSE UserPills(pills)]

\* the state of a run whose loop has ended with the given pills
AfterLoop(run, pills) ==
    IF pills = <<>> THEN IdleRem
    ELSE [run EXCEPT !.pc = "send", !.todo = <<>>, !.pills = pills,
                     !.out = UserPills(pills)]

PendingCreations == Len(rem[1].todo) + Len(rem[2].todo)

\* lines 117-123: now, current_time, current_date, get_schedules_for_time
RemStart(r) ==
    /\ rem[r].pc = "idle"
    /\ \A q \in Runs : q < r => rem[q].pc # "idle"
    /\ LET schedule_rows == get_schedules_for_time(TimeOf(get_now), DateOf(get_now))
       IN  /\ Len(logs) + PendingCreations + Len(schedule_rows) <= MaxLogs
           /\ rem' = [rem EXCEPT ![r] =
                        IF schedule_rows = <<>> THEN IdleRem
                        ELSE [pc |-> "check", now |-> get_now, todo |-> schedule_rows,
                              pills |-> <<>>, out |-> <<>>]]
    /\ UNCHANGED <<now, schedules, logs, fol, eve, conf, emitted, nconf, wizard, notified>>
    /\ answer' = "none"

\* line 128: check_existing_log(schedule["id"], current_date)
RemCheck(r) ==
    /\ rem[r].pc = "check"
    /\ LET run == rem[r]
       IN  rem' = [rem EXCEPT ![r] =
                IF check_existing_log(Head(run.todo), DateOf(run.now))
                THEN IF Tail(run.todo) = <<>>
                     THEN AfterLoop(run, run.pills)
                     ELSE [run EXCEPT !.todo = Tail(run.todo)]
                ELSE [run EXCEPT !.pc = "create"]]
    /\ UNCHANGED <<now, schedules, logs, fol, eve, conf, emitted, nconf, wizard, notified>>
    /\ answer' = "none"

\* a storage error of create_intake_log caught inside the loop, the loop
\* going on with the next schedule
OnCreateErrorSwallowed(run) ==
    [raised |-> FALSE,
     run |-> IF Tail(run.todo) = <<>> THEN AfterLoop(run, run.pills)
             ELSE [run EXCEPT !.pc = "check", !.todo = Tail(run.todo)]]

\* lines 131-134: nothing around create_intake_log catches; its exception
\* leaves send_reminders, whose loop and sends are abandoned
OnCreateError(run) == [raised |-> TRUE, run |-> IdleRem]

\* lines 131-149: create_intake_log(schedule_id, now), append to user_pills;
\* stored = FALSE is the insert failing with a storage error
RemCreate(r, stored) ==
    /\ rem[r].pc = "create"
    /\ LET run == rem[r]
           sid == Head(run.todo)
           pills == Append(run.pills, [id |-> Len(logs) + 1, schedule_id |-> sid])
       IN  IF stored
           THEN /\ logs' = Append(logs, NewLog(sid, run.now))
                /\ rem' = [rem EXCEPT ![r] =
                             IF Tail(run.todo) = <<>>
                             THEN AfterLoop(run, pills)
                             ELSE [run EXCEPT !.pc = "check", !.todo = Tail(run.todo),
                                              !.pills = pills]]
                /\ answer' = "none"
           ELSE /\ logs' = logs
                /\ rem' = [rem EXCEPT ![r] = OnCreateError(run).run]
                /\ answer' = IF OnCreateError(run).raised THEN "StorageError" ELSE "none"
    /\ UNCHANGED <<now, schedules, fol, eve, conf, emitted, nconf, wizard, notified>>

\* lines 152-171: one send_message per key; a failure is only logged
RemSend(r, delivered) ==
    /\ rem[r].pc = "send"
    /\ LET run == rem[r]
       IN  /\ emitted' = IF delivered THEN emitted \cup Range(Head(run.out)) ELSE emitted
           /\ rem' = [rem EXCEPT ![r] =
                        IF Tail(run.out) = <<>> THEN IdleRem
                        ELSE [run EXCEPT !.out = Tail(run.out)]]
    /\ UNCHANGED <<now, schedules, logs, fol, eve, conf, nconf, wizard, notified>>
    /\ answer' = "none"

\* ------------------------------------------------- send_followup_reminders
\* the cutoff test letting the cutoff hour itself through
is_within_reminder_hoursInclusive == TimeOf(get_now) <= REMINDER_CUTOFF_HOUR

\* now.hour < REMINDER_CUTOFF_HOUR
is_within_reminder_hours == TimeOf(get_now) < REMINDER_CUTOFF_HOUR

\* a follow-up run that has ended; the records of the messages it failed to
\* deliver (the "Failed to send follow-up reminder" lines of the error log)
\* stay on record until the next run inside the reminder window
FolDone(run) == [IdleFol EXCEPT !.failed = run.failed]

\* lines 176-203: the cutoff test (outside the hours the job returns at
\* once), the selection and the grouping
FolStart ==
    /\ fol.pc = "idle"
    /\ LET found == get_logs_for_followup_reminder(FollowupHours)
           user_logs == GroupByKey(found, [i \in 1..Len(found) |-> KeyOf(found[i])])
       IN  fol' = IF ~is_within_reminder_hours THEN fol
                  ELSE IF user_logs = <<>> THEN IdleFol
                  ELSE [pc |-> "send", now |-> get_now, out |-> user_logs, upd |-> <<>>,
                        failed |-> {}]
    /\ UNCHANGED <<now, schedules, logs, rem, eve, conf, emitted, nconf, wizard, notified>>
    /\ answer' = "none"

\* the updates after a send inside the try block, written before the send
AfterDeliveryAlways(delivered, group) == group

\* lines 213-224 / 282-294: the updates follow send_message inside the try
\* block; an exception of the send skips them
AfterDelivery(delivered, group) == IF delivered THEN group ELSE <<>>

\* lines 213-224: send_message of one group; on failure nothing is counted
FolSend(delivered) ==
    /\ fol.pc = "send"
    /\ LET upd == AfterDelivery(delivered, Head(fol.out))
           run == IF delivered THEN fol
                  ELSE [fol EXCEPT !.failed = @ \cup Range(Head(fol.out))]
       IN  fol' = IF upd # <<>>
                  THEN [run EXCEPT !.pc = "update", !.upd = upd, !.out = Tail(fol.out)]
                  ELSE IF Tail(fol.out) = <<>> THEN FolDone(run)
                       ELSE [run EXCEPT !.out = Tail(fol.out)]
    /\ UNCHANGED <<now, schedules, logs, rem, eve, conf, emitted, nconf, wizard>>
    /\ notified' = IF delivered
                   THEN [notified EXCEPT !.followup = Counted(@, Head(fol.out))]
                   ELSE notified
    /\ answer' = "none"

\* lines 220-221: update_reminder_count(log_id, now) for the next log id
FolUpdate ==
    /\ fol.pc = "update"
    /\ logs' = update_reminder_count(Head(fol.upd), fol.now)
    /\ fol' = IF Tail(fol.upd) # <<>> THEN [fol EXCEPT !.upd = Tail(fol.upd)]
              ELSE IF fol.out = <<>> THEN FolDone(fol)
              ELSE [fol EXCEPT !.pc = "send", !.upd = <<>>]
    /\ UNCHANGED <<now, schedules, rem, eve, conf, emitted, nconf, wizard, notified>>
    /\ answer' = "none"

\* -------------------------------------------------- send_evening_reminders
TelegramOf(id) == schedules[logs[id].schedule_id].telegram_id

\* a sweep that has run to its end; the time it fired at stays on record
EveDone(run) == [IdleEve EXCEPT !.now = run.now]

\* where the sweep goes once a chat's groups are done
EveNext(run, chats) ==
    IF chats = <<>> THEN EveDone(run)
    ELSE [pc |-> "chat", now |-> run.now, chats |-> chats, out |-> <<>>, upd |-> <<>>]

\* lines 234-250: the cron fires once at EVENING_REMINDER_TIME; the chat_ids
\* query
EveStart ==
    /\ eve.pc = "idle"
    /\ TimeOf(get_now) = EveningHour
    /\ eve.now # get_now
    /\ eve' = EveNext([now |-> get_now], EveningChats(get_today))
    /\ UNCHANGED <<now, schedules, logs, rem, fol, conf, emitted, nconf, wizard, notified>>
    /\ answer' = "none"

\* lines 252-270: get_pending_logs_for_today(chat_id), grouped by telegram_id
EveChat ==
    /\ eve.pc = "chat"
    /\ \E today \in SystemTodays :
          LET found == get_pending_logs_for_today(Head(eve.chats), today)
              user_logs == GroupByKey(found, [i \in 1..Len(found) |-> TelegramOf(found[i])])
          IN  eve' = IF user_logs = <<>> THEN EveNext(eve, Tail(eve.chats))
                     ELSE [pc |-> "send", now |-> eve.now, chats |-> Tail(eve.chats),
                           out |-> user_logs, upd |-> <<>>]
    /\ UNCHANGED <<now, schedules, logs, rem, fol, conf, emitted, nconf, wizard, notified>>
    /\ answer' = "none"

\* lines 282-294: send_message of one user's group
EveSend(delivered) ==
    /\ eve.pc = "send"
    /\ LET upd == AfterDelivery(delivered, Head(eve.out))
       IN  eve' = IF upd # <<>>
                  THEN [eve EXCEPT !.pc = "update", !.upd = upd, !.out = Tail(eve.out)]
                  ELSE IF Tail(eve.out) = <<>> THEN EveNext(eve, eve.chats)
                       ELSE [eve EXCEPT !.out = Tail(eve.out)]
    /\ UNCHANGED <<now, schedules, logs, rem, fol, conf, emitted, nconf, wizard>>
    /\ notified' = IF delivered
                   THEN [notified EXCEPT !.sweep = Counted(@, Head(eve.out))]
                   ELSE notified
    /\ answer' = "none"

\* lines 291-292: update_intake_status(pill["id"], "reminded")
EveUpdate ==
    /\ eve.pc = "update"
    /\ logs' = update_intake_status(Head(eve.upd), "reminded", NoTime)
    /\ eve' = IF Tail(eve.upd) # <<>> THEN [eve EXCEPT !.upd = Tail(eve.upd)]
              ELSE IF eve.out = <<>> THEN EveNext(eve, eve.chats)
              ELSE [eve EXCEPT !.pc = "send", !.upd = <<>>]
    /\ UNCHANGED <<now, schedules, rem, fol, conf, emitted, nconf, wizard, notified>>
    /\ answer' = "none"


\* ------------------------------------- confirm_taken / confirm_missed (h)
\* the callback of a "taken_<id>" / "missed_<id>" button; each handler slot
\* is one concurrently running callback task, and `answer` is what the step
\* just taken told the user (callback.answer) or the exception that left a
\* job with it, "none" when there was neither

\* a new callback task takes the first free slot
FreeSlot(h) == conf[h].pc = "idle" /\ \A g \in Handlers : g < h => conf[g].pc # "idle"

\* a button for the log exists once a message with it has gone out; an id
\* that names no row comes from a stale or foreign keyboard
Offered(log_id) == log_id \in LogIds => log_id \in emitted

\* get_intake_log(log_id): the row, or None
get_intake_log(log_id) == IF log_id \in LogIds THEN logs[log_id] ELSE NewLog(0, NoTime)

\* the status test of the handler on the log it read: confirm_taken returns
\* on "taken" (line 57), confirm_missed on "missed" (line 117)
AlreadyMarked(intent, status) == status = intent

\* the handler without its ownership test
NotOwnerSkipped(schedule_id, actor) == FALSE

\* the ownership test (lines 53 / 113) on the joined row of the schedule:
\* not row or row["telegram_id"] != callback.from_user.id
NotOwner(schedule_id, actor) ==
    ~schedules[schedule_id].present \/ schedules[schedule_id].telegram_id # actor

\* lines 28-61 / 89-119: get_intake_log, the ownership query, the early
\* returns, and get_now().  The two reads are one step: the only change to
\* the joined rows is a deletion, and a deletion between the two reads ends
\* the handler as one before both does
ConfRead(h, intent, log_id, actor) ==
    /\ FreeSlot(h)
    /\ Offered(log_id)
    /\ nconf < MaxConfirms
    /\ nconf' = nconf + 1
    /\ LET log == get_intake_log(log_id)
       IN  IF log_id \notin LogIds
           THEN /\ answer' = "NotFound"
                /\ UNCHANGED conf
           ELSE IF NotOwner(log.schedule_id, actor)
           THEN /\ answer' = "Forbidden"
                /\ UNCHANGED conf
           ELSE IF AlreadyMarked(intent, log.status)
           THEN /\ answer' = "AlreadyFinalized"
                /\ UNCHANGED conf
           ELSE /\ conf' = [conf EXCEPT ![h] =
                              [pc |-> "write", intent |-> intent, log_id |-> log_id,
                               schedule_id |-> log.schedule_id,
                               frequency |-> schedules[log.schedule_id].frequency,
                               now |-> get_now]]
                /\ answer' = "none"
    /\ UNCHANGED <<now, schedules, logs, rem, fol, eve, emitted, wizard, notified>>

\* line 62 / 121: update_intake_status; for "taken" on an interval schedule
\* the handler goes on to get_today() (lines 66-67)
ConfWrite(h) ==
    /\ conf[h].pc = "write"
    /\ LET c == conf[h]
           more == c.intent = "taken" /\ c.frequency = "interval"
       IN  /\ logs' = update_intake_status(c.log_id, c.intent,
                                             IF c.intent = "taken" THEN c.now ELSE NoTime)
           /\ conf' = [conf EXCEPT ![h] =
                        IF more THEN [c EXCEPT !.pc = "anchor", !.now = get_now]
                        ELSE IdleConf]
           /\ answer' = IF more THEN "none" ELSE "Ok"
    /\ UNCHANGED <<now, schedules, rem, fol, eve, emitted, nconf, wizard, notified>>

\* line 68: update_schedule_start_date(schedule_id, today_str)
ConfAnchor(h) ==
    /\ conf[h].pc = "anchor"
    /\ schedules' = update_schedule_start_date(conf[h].schedule_id, DateOf(conf[h].now))
    /\ conf' = [conf EXCEPT ![h] = IdleConf]
    /\ answer' = "Ok"
    /\ UNCHANGED <<now, logs, rem, fol, eve, emitted, nconf, wizard, notified>>

\* --------------------------------- not_taken_yet / remind_later (legacy)
\* not_taken_yet counting its answer as a reminder of the record
not_taken_yetCounted(log_id, actor) ==
    /\ nconf < MaxConfirms
    /\ nconf' = nconf + 1
    /\ LET log == get_intake_log(log_id)
       IN  /\ answer' = IF log_id \notin LogIds THEN "NotFound"
                        ELSE IF NotOwner(log.schedule_id, actor) THEN "Forbidden"
                        ELSE IF log.status # "pending" THEN "StatusChanged"
                        ELSE "NotTakenYet"
           /\ logs' = IF answer' = "NotTakenYet" THEN update_reminder_count(log_id, get_now)
                      ELSE logs
    /\ UNCHANGED <<now, schedules, rem, fol, eve, conf, emitted, wizard, notified>>

\* lines 138-187: get_intake_log, the ownership query, the status test and
\* callback.answer; the handler has no database write
not_taken_yet(log_id, actor) ==
    /\ nconf < MaxConfirms
    /\ nconf' = nconf + 1
    /\ LET log == get_intake_log(log_id)
       IN  answer' = IF log_id \notin LogIds THEN "NotFound"
                     ELSE IF NotOwner(log.schedule_id, actor) THEN "Forbidden"
                     ELSE IF log.status # "pending" THEN "StatusChanged"
                     ELSE "NotTakenYet"
    /\ UNCHANGED <<now, schedules, logs, rem, fol, eve, conf, emitted, wizard, notified>>

\* lines 190-226: get_intake_log, the ownership query and callback.answer;
\* no status test and no database write
remind_later(log_id, actor) ==
    /\ nconf < MaxConfirms
    /\ nconf' = nconf + 1
    /\ LET log == get_intake_log(log_id)
       IN  answer' = IF log_id \notin LogIds THEN "NotFound"
                     ELSE IF NotOwner(log.schedule_id, actor) THEN "Forbidden"
                     ELSE "RemindLater"
    /\ UNCHANGED <<now, schedules, logs, rem, fol, eve, conf, emitted, wizard, notified>>

\* ------------------------------------------ /addpill wizard (handlers/pills)
\* a text message as int(message.text.strip()) sees it: a number, or a text
\* for which int() raises ValueError
Number(v) == [numeric |-> TRUE, value |-> v]
NotANumber == [numeric |-> FALSE, value |-> 0]

\* the texts sent for the interval, for the day of the month and for the
\* hour of a custom time
IntervalTexts == {NotANumber} \cup {Number(v) : v \in {-1, 0, 1, 3, 366}}
MonthdayTexts == {NotANumber} \cup {Number(v) : v \in {-1, 0, 1, 31, 32}}
HourTexts == {NotANumber} \cup {Number(v) : v \in {-1, 1, 24}}

\* the buttons of the keyboards: weekday_1 .. weekday_7, time_08:00 /
\* time_20:00, newtime_<pill>_08:00 / _20:00
WeekdayButtons == {1, 7}
TimeButtons == {8, 20}

\* a place of the schedules table that no row has had yet
EmptyRow ==
    [time |-> NoTime, days |-> {}, frequency |-> "none", interval_days |-> 0,
     start_date |-> NoDate, is_active |-> FALSE, telegram_id |-> 0, chat_id |-> 0,
     present |-> FALSE]

\* AUTOINCREMENT: the id after the highest id ever given out
Unused(sid) == schedules[sid] = EmptyRow /\ \A q \in SchedIds : q < sid => schedules[q] # EmptyRow

\* add_schedule: start_date is date.today() when none is passed (lines 276-277)
add_schedule(sid, time, days, frequency, interval_days, start_date, telegram_id) ==
    [schedules EXCEPT ![sid] =
        ScheduleRow(time, frequency, days, interval_days, start_date, telegram_id)]

\* lines 80-92: /addpill in any state of the conversation
cmd_addpill(u) ==
    /\ wizard.user \in {0, u}
    /\ wizard.state # "waiting_for_name"
    /\ wizard' = [wizard EXCEPT !.state = "waiting_for_name", !.user = u]
    /\ answer' = "none"
    /\ UNCHANGED <<now, schedules, logs, rem, fol, eve, conf, emitted, nconf, notified>>

\* lines 95-100
process_pill_name ==
    /\ wizard.state = "waiting_for_name"
    /\ wizard' = [wizard EXCEPT !.state = "waiting_for_dosage"]
    /\ answer' = "none"
    /\ UNCHANGED <<now, schedules, logs, rem, fol, eve, conf, emitted, nconf, notified>>

\* lines 103-117
process_pill_dosage ==
    /\ wizard.state = "waiting_for_dosage"
    /\ wizard' = [wizard EXCEPT !.state = "waiting_for_photo"]
    /\ answer' = "none"
    /\ UNCHANGED <<now, schedules, logs, rem, fol, eve, conf, emitted, nconf, notified>>

\* lines 120-138: a photo or the skip button, then show_frequency_selection
process_pill_photo ==
    /\ wizard.state = "waiting_for_photo"
    /\ wizard' = [wizard EXCEPT !.state = "waiting_for_frequency"]
    /\ answer' = "none"
    /\ UNCHANGED <<now, schedules, logs, rem, fol, eve, conf, emitted, nconf, notified>>

\* lines 152-195: the five buttons of the frequency keyboard
process_frequency_selection(freq_data) ==
    /\ wizard.state = "waiting_for_frequency"
    /\ wizard' =
          CASE freq_data = "daily" ->
                  [wizard EXCEPT !.frequency = "daily", !.days = {1, 2, 3, 4, 5, 6, 7},
                                 !.interval_days = 1, !.state = "waiting_for_time"]
            [] freq_data = "interval_2" ->
                  [wizard EXCEPT !.frequency = "interval", !.days = {},
                                 !.interval_days = 2, !.state = "waiting_for_time"]
            [] freq_data = "interval_custom" -> [wizard EXCEPT !.state = "waiting_for_interval"]
            [] freq_data = "weekly" -> [wizard EXCEPT !.state = "waiting_for_weekday"]
            [] freq_data = "monthly" -> [wizard EXCEPT !.state = "waiting_for_monthday"]
    /\ answer' = "none"
    /\ UNCHANGED <<now, schedules, logs, rem, fol, eve, conf, emitted, nconf, notified>>

\* the range test of process_interval_input accepting 0
process_interval_inputFromZero(text) ==
    IF text.numeric /\ ~(text.value < 0 \/ text.value > 365)
    THEN [wizard EXCEPT !.frequency = "interval", !.days = {},
                        !.interval_days = text.value, !.state = "waiting_for_time"]
    ELSE wizard

\* lines 198-210: the context after the text; a text that is no number or is
\* outside 1..365 is answered with a prompt and changes nothing
process_interval_input(text) ==
    IF text.numeric /\ ~(text.value < 1 \/ text.value > 365)
    THEN [wizard EXCEPT !.frequency = "interval", !.days = {},
                        !.interval_days = text.value, !.state = "waiting_for_time"]
    ELSE wizard

IntervalInput(text) ==
    /\ wizard.state = "waiting_for_interval"
    /\ wizard' = process_interval_input(text)
    /\ answer' = IF wizard' = wizard THEN "Rejected" ELSE "none"
    /\ UNCHANGED <<now, schedules, logs, rem, fol, eve, conf, emitted, nconf, notified>>

\* lines 213-219
process_weekday_selection(weekday) ==
    /\ wizard.state = "waiting_for_weekday"
    /\ wizard' = [wizard EXCEPT !.frequency = "weekly", !.days = {weekday},
                                !.interval_days = 1, !.state = "waiting_for_time"]
    /\ answer' = "none"
    /\ UNCHANGED <<now, schedules, logs, rem, fol, eve, conf, emitted, nconf, notified>>

\* lines 222-234: a text that is no number or is outside 1..31 is answered
\* with a prompt and changes nothing
process_monthday_input(text) ==
    /\ wizard.state = "waiting_for_monthday"
    /\ IF text.numeric /\ ~(text.value < 1 \/ text.value > 31)
       THEN /\ wizard' = [wizard EXCEPT !.frequency = "monthly", !.days = {text.value},
                                        !.interval_days = 1, !.state = "waiting_for_time"]
            /\ answer' = "none"
       ELSE /\ wizard' = wizard
            /\ answer' = "Rejected"
    /\ UNCHANGED <<now, schedules, logs, rem, fol, eve, conf, emitted, nconf, notified>>

\* lines 291-322: add_pill, add_schedule with the data of the context,
\* state.clear()
save_pill(sid, time, start_date) ==
    /\ schedules' = add_schedule(sid, time, wizard.days, wizard.frequency,
                                 wizard.interval_days, start_date, wizard.user)
    /\ wizard' = IdleWizard
    /\ answer' = "Saved"

\* lines 256-267: a time button saves, the custom button asks for a text
process_time_selection(custom, time_data) ==
    /\ wizard.state = "waiting_for_time"
    /\ IF custom
       THEN /\ wizard' = [wizard EXCEPT !.state = "waiting_for_custom_time"]
            /\ answer' = "none"
            /\ UNCHANGED schedules
       ELSE \E sid \in SchedIds, today \in SystemTodays :
               Unused(sid) /\ save_pill(sid, time_data, today)
    /\ UNCHANGED <<now, logs, rem, fol, eve, conf, emitted, nconf, notified>>

\* lines 271-288: the hour of "HH:MM" (0..23) saves, anything else is
\* answered with a prompt
process_custom_time(text) ==
    /\ wizard.state = "waiting_for_custom_time"
    /\ IF text.numeric /\ 0 <= text.value /\ text.value <= 23
       THEN \E sid \in SchedIds, today \in SystemTodays :
               Unused(sid) /\ save_pill(sid, text.value, today)
       ELSE /\ answer' = "Rejected"
            /\ UNCHANGED <<schedules, wizard>>
    /\ UNCHANGED <<now, logs, rem, fol, eve, conf, emitted, nconf, notified>>

\* handlers/schedule.py lines 137-152: a newtime_ button adds a daily
\* schedule to a pill of the user (add_schedule's default frequency and
\* interval_days)
save_new_schedule_time(of, time_str, actor) ==
    /\ schedules[of].present
    /\ IF schedules[of].telegram_id # actor
       THEN /\ answer' = "Forbidden"
            /\ UNCHANGED schedules
       ELSE /\ \E sid \in SchedIds, today \in SystemTodays :
                  /\ Unused(sid)
                  /\ schedules' = add_schedule(sid, time_str, {1, 2, 3, 4, 5, 6, 7}, "daily",
                                               1, today, actor)
            /\ answer' = "TimeAdded"
    /\ UNCHANGED <<now, logs, rem, fol, eve, conf, emitted, nconf, wizard, notified>>

\* ---------------------------------------------------------------- deletion
\* (nconf counts the callbacks handled, the delete buttons among them)
\* handlers/pills.py lines 558-575, database.py lines 222-227: delete_pill
\* deletes the pills row.  No connection sets PRAGMA foreign_keys, so ON
\* DELETE CASCADE does not act: the schedules row and the intake_logs rows
\* stay, and the joins no longer reach them
process_delete_pill(sid, actor) ==
    /\ schedules[sid].present
    /\ nconf < MaxConfirms
    /\ nconf' = nconf + 1
    /\ IF schedules[sid].telegram_id # actor
       THEN /\ answer' = "Forbidden"
            /\ UNCHANGED schedules
       ELSE /\ schedules' = [schedules EXCEPT ![sid].present = FALSE]
            /\ answer' = "PillDeleted"
    /\ UNCHANGED <<now, logs, rem, fol, eve, conf, emitted, wizard, notified>>

\* handlers/schedule.py lines 199-213, database.py lines 424-431:
\* delete_schedule deletes the schedules row; its intake_logs rows stay
delete_schedule(sid, actor) ==
    /\ schedules[sid].present
    /\ nconf < MaxConfirms
    /\ nconf' = nconf + 1
    /\ IF schedules[sid].telegram_id # actor
       THEN /\ answer' = "Forbidden"
            /\ UNCHANGED schedules
       ELSE /\ schedules' = [schedules EXCEPT ![sid].present = FALSE]
            /\ answer' = "ScheduleDeleted"
    /\ UNCHANGED <<now, logs, rem, fol, eve, conf, emitted, wizard, notified>>

\* ------------------------------------------------------------ specification
Next ==
    \/ Tick
    \/ \E r \in {1} : RemStart(r)
    \/ \E r \in {1} : RemCheck(r)
    \/ \E r \in {1}, stored \in BOOLEAN : RemCreate(r, stored)
    \/ \E r \in {1}, delivered \in BOOLEAN : RemSend(r, delivered)
    \/ FolStart
    \/ \E delivered \in BOOLEAN : FolSend(delivered)
    \/ FolUpdate
    \/ EveStart
    \/ EveChat
    \/ \E delivered \in BOOLEAN : EveSend(delivered)
    \/ EveUpdate
    \/ \E h \in Handlers, intent \in Intents, log_id \in 1..(MaxLogs + 1), actor \in Users :
          ConfRead(h, intent, log_id, actor)
    \/ \E h \in Handlers : ConfWrite(h)
    \/ \E h \in Handlers : ConfAnchor(h)

Spec == Init /\ [][Next]_vars

TypeOK ==
    /\ now \in Int
    /\ Len(logs) <= MaxLogs


\* two runs of send_reminders that overlap (a second scheduler on the same
\* database), on schedules whose hour has the same date in UTC
InitOverlap ==
    /\ now = StartNow
    /\ schedules = [sid \in SchedIds |->
                      ScheduleRow(7 + sid, "daily", {1, 2, 3, 4, 5, 6, 7}, 1, StartDay, 1)]
    /\ logs = <<>>
    /\ rem = [r \in Runs |-> IdleRem]
    /\ fol = IdleFol
    /\ eve = IdleEve
    /\ conf = [h \in Handlers |-> IdleConf]
    /\ answer = "none"
    /\ emitted = {}
    /\ nconf = 0
    /\ wizard = IdleWizard
    /\ notified = NoneNotified

NextOverlap ==
    \/ Tick
    \/ \E r \in Runs : RemStart(r)
    \/ \E r \in Runs : RemCheck(r)
    \/ \E r \in Runs, stored \in BOOLEAN : RemCreate(r, stored)
    \/ \E r \in Runs, delivered \in BOOLEAN : RemSend(r, delivered)
    \/ FolStart
    \/ \E delivered \in BOOLEAN : FolSend(delivered)
    \/ FolUpdate

SpecOverlap == InitOverlap /\ [][NextOverlap]_vars

\* the recurrence rule on the rows the wizard (or an older version of the
\* table, whose rows have no start_date) can have stored: schedule 1 is any
\* of them, at 08:00; schedule 2 is daily at 08:00
RuleRows ==
    {ScheduleRow(8, f, ds, 1, StartDay, 1) :
        f \in {"weekly", "specific_days"},
        ds \in {{1, 3, 5}, {1}, {7}, {2, 4}, {6, 7}, {1, 2, 3, 4, 5, 6, 7}}}
    \cup {ScheduleRow(8, "monthly", ds, 1, StartDay, 1) :
             ds \in {{31}, {30}, {29}, {StartDay}, {1}, {15}}}
    \cup {ScheduleRow(8, "interval", {}, n, a, 1) :
             n \in 1..3, a \in {NoDate, 1, StartDay - 2, StartDay, StartDay + 1}}

InitRule ==
    /\ now = StartNow
    /\ schedules \in {[sid \in SchedIds |->
                          IF sid = 1 THEN row
                          ELSE ScheduleRow(8, "daily", {1, 2, 3, 4, 5, 6, 7}, 1, StartDay, 1)] :
                       row \in RuleRows}
    /\ logs = <<>>
    /\ rem = [r \in Runs |-> IdleRem]
    /\ fol = IdleFol
    /\ eve = IdleEve
    /\ conf = [h \in Handlers |-> IdleConf]
    /\ answer = "none"
    /\ emitted = {}
    /\ nconf = 0
    /\ wizard = IdleWizard
    /\ notified = NoneNotified

NextRule ==
    \/ Tick
    \/ EveStart
    \/ \E r \in {1} : RemStart(r)
    \/ \E r \in {1} : RemCheck(r)
    \/ \E r \in {1}, stored \in BOOLEAN : RemCreate(r, stored)
    \/ \E r \in {1}, delivered \in BOOLEAN : RemSend(r, delivered)

SpecRule == InitRule /\ [][NextRule]_vars

\* schedules.is_active (database.py line 45) is read by the selections of
\* database.py and written by no statement of the program: a row is switched
\* off in the table itself
Deactivate(sid) ==
    /\ schedules[sid].is_active
    /\ schedules' = [schedules EXCEPT ![sid].is_active = FALSE]
    /\ answer' = "none"
    /\ UNCHANGED <<now, logs, rem, fol, eve, conf, emitted, nconf, wizard, notified>>

\* the three jobs over a table whose rows can be switched off
NextInactive ==
    \/ Tick
    \/ \E sid \in SchedIds : Deactivate(sid)
    \/ \E r \in {1} : RemStart(r)
    \/ \E r \in {1} : RemCheck(r)
    \/ \E r \in {1}, stored \in BOOLEAN : RemCreate(r, stored)
    \/ \E r \in {1}, delivered \in BOOLEAN : RemSend(r, delivered)
    \/ FolStart
    \/ \E delivered \in BOOLEAN : FolSend(delivered)
    \/ FolUpdate
    \/ EveStart
    \/ EveChat
    \/ \E delivered \in BOOLEAN : EveSend(delivered)
    \/ EveUpdate

SpecInactive == Init /\ [][NextInactive]_vars

\* two daily schedules at 08:00 whose records are due in the same tick: of
\* one user, of two users of one chat, or of one user in two chats
InitGroup ==
    /\ now = StartNow
    /\ schedules \in
          {[sid \in SchedIds |->
              IF sid = 1 THEN ScheduleRow(8, "daily", {1, 2, 3, 4, 5, 6, 7}, 1, StartDay, 1)
              ELSE [ScheduleRow(8, "daily", {1, 2, 3, 4, 5, 6, 7}, 1, StartDay, u)
                        EXCEPT !.chat_id = c]] : u \in Users, c \in {10, 11}}
    /\ logs = <<>>
    /\ rem = [r \in Runs |-> IdleRem]
    /\ fol = IdleFol
    /\ eve = IdleEve
    /\ conf = [h \in Handlers |-> IdleConf]
    /\ answer = "none"
    /\ emitted = {}
    /\ nconf = 0
    /\ wizard = IdleWizard
    /\ notified = NoneNotified

SpecGroup == InitGroup /\ [][NextInactive]_vars

\* the selections of database.py over tables of two rows with any pair of
\* times: schedule 1 has one of the wizard's rules or a row with a frequency
\* the code does not know, an empty frequency or no interval; schedule 2 is
\* daily or every second day
RangeRows ==
    {ScheduleRow(t, f, {StartDay}, 1, StartDay, 1) :
        t \in {8, 20}, f \in {"daily", "weekly", "monthly", "", "yearly"}}
    \cup {ScheduleRow(t, "interval", {}, n, a, 1) :
             t \in {8, 20}, n \in {0, 2}, a \in {NoDate, StartDay + 1}}

InitRange ==
    /\ now = StartNow
    /\ schedules \in {[sid \in SchedIds |->
                          IF sid = 1 THEN row
                          ELSE ScheduleRow(t, "interval", {}, n, StartDay, 1)] :
                       row \in RangeRows, t \in {1, 8, 9}, n \in {2}}
    /\ logs = <<>>
    /\ rem = [r \in Runs |-> IdleRem]
    /\ fol = IdleFol
    /\ eve = IdleEve
    /\ conf = [h \in Handlers |-> IdleConf]
    /\ answer = "none"
    /\ emitted = {}
    /\ nconf = 0
    /\ wizard = IdleWizard
    /\ notified = NoneNotified

NextRange ==
    \/ Tick
    \/ \E sid \in SchedIds : Deactivate(sid)
    \/ EveStart
    \/ \E r \in {1} : RemStart(r)
    \/ \E r \in {1} : RemCheck(r)
    \/ \E r \in {1}, stored \in BOOLEAN : RemCreate(r, stored)
    \/ \E r \in {1}, delivered \in BOOLEAN : RemSend(r, delivered)

SpecRange == InitRange /\ [][NextRange]_vars

\* the jobs and the four callbacks of handlers/confirm.py
NextCallbacks ==
    \/ Next
    \/ \E log_id \in 1..(MaxLogs + 1), actor \in Users : not_taken_yet(log_id, actor)
    \/ \E log_id \in 1..(MaxLogs + 1), actor \in Users : remind_later(log_id, actor)

SpecCallbacks == Init /\ [][NextCallbacks]_vars

\* the jobs and the confirmations with pills and schedules being deleted
NextDelete ==
    \/ Tick
    \/ \E r \in {1} : RemStart(r)
    \/ \E r \in {1} : RemCheck(r)
    \/ \E r \in {1}, stored \in BOOLEAN : RemCreate(r, stored)
    \/ \E r \in {1}, delivered \in BOOLEAN : RemSend(r, delivered)
    \/ FolStart
    \/ \E delivered \in BOOLEAN : FolSend(delivered)
    \/ FolUpdate
    \/ EveStart
    \/ EveChat
    \/ \E delivered \in BOOLEAN : EveSend(delivered)
    \/ EveUpdate
    \/ \E h \in {1}, intent \in Intents, log_id \in 1..(MaxLogs + 1), actor \in Users :
          ConfRead(h, intent, log_id, actor)
    \/ \E h \in {1} : ConfWrite(h)
    \/ \E h \in {1} : ConfAnchor(h)
    \/ \E sid \in SchedIds, actor \in Users : process_delete_pill(sid, actor)
    \/ \E sid \in SchedIds, actor \in Users : delete_schedule(sid, actor)

SpecDelete == Init /\ [][NextDelete]_vars

\* the /addpill conversation and the newtime_ buttons on an empty table
InitWizard ==
    /\ now = StartNow
    /\ schedules = [sid \in SchedIds |-> EmptyRow]
    /\ logs = <<>>
    /\ rem = [r \in Runs |-> IdleRem]
    /\ fol = IdleFol
    /\ eve = IdleEve
    /\ conf = [h \in Handlers |-> IdleConf]
    /\ answer = "none"
    /\ emitted = {}
    /\ nconf = 0
    /\ wizard = IdleWizard
    /\ notified = NoneNotified

NextWizard ==
    \/ \E u \in {1} : cmd_addpill(u)
    \/ process_pill_name
    \/ process_pill_dosage
    \/ process_pill_photo
    \/ \E freq_data \in {"daily", "interval_2", "interval_custom", "weekly", "monthly"} :
          process_frequency_selection(freq_data)
    \/ \E text \in IntervalTexts : IntervalInput(text)
    \/ \E weekday \in WeekdayButtons : process_weekday_selection(weekday)
    \/ \E text \in MonthdayTexts : process_monthday_input(text)
    \/ \E custom \in BOOLEAN, time_data \in TimeButtons : process_time_selection(custom, time_data)
    \/ \E text \in HourTexts : process_custom_time(text)
    \/ \E of \in SchedIds, time_str \in TimeButtons, actor \in Users :
          save_new_schedule_time(of, time_str, actor)

SpecWizard == InitWizard /\ [][NextWizard]_vars

\* ------------------------------------------------------------------ claims
\* the calendar day of a record's scheduled_time (the local date it carries)
DayOfLog(id) == DateOf(logs[id].scheduled_time)

SameOccurrence(i, j) ==
    /\ logs[i].schedule_id = logs[j].schedule_id
    /\ DayOfLog(i) = DayOfLog(j)

\* C1: in every reachable state there is at most one intake record per
\* (schedule id, calendar day of scheduled_time).
C1_OneRecordPerScheduleDay ==
    \A i \in LogIds : \A j \in LogIds : SameOccurrence(i, j) => i = j

\* C2: two overlapping runs of send_reminders never both create a record for
\* the same (schedule, day): the records the two runs have created are for
\* different occurrences.
C2_NoDoubleCreation ==
    \A r \in Runs : \A q \in Runs :
        r # q =>
            \A i \in 1..Len(rem[r].pills) : \A j \in 1..Len(rem[q].pills) :
                ~SameOccurrence(rem[r].pills[i].id, rem[q].pills[j].id)

\* C3: check_existing_log followed by create_intake_log, run again for the
\* same (schedule, date(t)), creates nothing: a record is created only when
\* the schedule has no record whose scheduled_time is on that date.
C3_SecondRunCreatesNothing ==
    [][\A r \in Runs :
          RemCreate(r, TRUE) =>
              ~\E id \in LogIds :
                    /\ logs[id].schedule_id = Head(rem[r].todo)
                    /\ DayOfLog(id) = DateOf(rem[r].now)]_vars

\* C4: a tick emits only records it newly created, and a tick at a minute
\* whose record already exists emits nothing for that schedule: no two
\* records of the same schedule and day both get an initial reminder.
C4_OneInitialReminder ==
    \A i \in emitted : \A j \in emitted : SameOccurrence(i, j) => i = j

\* C5: a confirmation (taken or missed) by the owner of a record whose status
\* is already taken or missed is answered AlreadyFinalized and writes nothing.
C5_FinalizedIsNoOp ==
    [][\A h \in Handlers, intent \in Intents, id \in LogIds, actor \in Users :
          ( /\ ConfRead(h, intent, id, actor)
            /\ schedules[logs[id].schedule_id].telegram_id = actor
            /\ logs[id].status \in {"taken", "missed"} )
          => (answer' = "AlreadyFinalized" /\ conf' = conf)]_vars

\* C6: in every reachable state, for every intake record, taken_at is set
\* if and only if status is taken.
C6_TakenAtIffTaken ==
    \A id \in LogIds : (logs[id].taken_at # NoTime) <=> (logs[id].status = "taken")

\* C7: every status change of a record is pending -> taken, pending -> missed
\* or pending -> reminded; no record leaves taken, missed or reminded.
C7_OnlyFromPending ==
    [][\A id \in LogIds :
          logs'[id].status # logs[id].status =>
              /\ logs[id].status = "pending"
              /\ logs'[id].status \in {"taken", "missed", "reminded"}]_vars

C9_RejectedConfirmations ==
    [][\A h \in Handlers, intent \in Intents, id \in 1..(MaxLogs + 1), actor \in Users :
          ConfRead(h, intent, id, actor) =>
              /\ id \notin LogIds =>
                    answer' = "NotFound" /\ UNCHANGED <<logs, schedules, conf>>
              /\ (id \in LogIds /\ schedules[logs[id].schedule_id].telegram_id # actor) =>
                    answer' = "Forbidden" /\ UNCHANGED <<logs, schedules, conf>>]_vars

\* a confirmation was just refused as Forbidden while a record was pending
C9_Witness ==
    /\ answer = "Forbidden"
    /\ \E id \in LogIds : logs[id].status = "pending" /\ id \in emitted

\* C10: handling the same token (intent, record id) again, also when the
\* second handler read the record before the first wrote it, leaves the
\* record as the first handling left it: a write on a record that already
\* has the token's status changes nothing.
C10_RepeatedTokenWritesOnce ==
    [][\A h \in Handlers :
          (ConfWrite(h) /\ logs[conf[h].log_id].status = conf[h].intent)
              => logs' = logs]_vars

\* C11: in every reachable state every record has reminder_count in {0, 1}:
\* a record receives at most one follow-up reminder, over any sequence of
\* follow-up ticks, delivery successes and failures.
C11_AtMostOneFollowUp ==
    \A id \in LogIds : logs[id].reminder_count \in {0, 1}

\* a record has had its follow-up, is still pending, and the clock is at a
\* later hour of the same day inside the reminder hours: but for its count
\* the follow-up tick would select it again
C11_Witness ==
    \E id \in LogIds :
        /\ logs[id].reminder_count = 1
        /\ logs[id].last_reminder_at < get_now
        /\ id \in Range(get_logs_for_followup_reminderAnyCount(FollowupHours))
        /\ is_within_reminder_hours

\* C12: the follow-up selection with the one-hour threshold returns exactly
\* the records that are pending, have reminder_count = 0 and were scheduled
\* at least one hour ago; no other record is returned.
C12_FollowUpSelectionExact ==
    Range(get_logs_for_followup_reminder(FollowupHours)) =
        {id \in LogIds : /\ logs[id].status = "pending"
                          /\ logs[id].reminder_count = 0
                          /\ logs[id].scheduled_time + FollowupHours <= get_now}

\* C13: a follow-up tick that runs at or after the cutoff hour (local hour
\* >= 21) is a no-op: it selects and sends nothing and changes no record;
\* whatever a follow-up run sends or counts, it started before the cutoff.
C13_NoFollowUpAfterCutoff ==
    [][/\ (FolStart /\ TimeOf(get_now) >= REMINDER_CUTOFF_HOUR)
            => (fol'.pc = "idle" /\ logs' = logs)
       /\ (FolUpdate \/ \E delivered \in BOOLEAN : FolSend(delivered))
            => TimeOf(fol.now) < REMINDER_CUTOFF_HOUR]_vars

\* the clock is at the cutoff hour, no follow-up run is under way, and a
\* record is there that the follow-up selection returns
C13_Witness ==
    /\ TimeOf(get_now) >= REMINDER_CUTOFF_HOUR
    /\ fol.pc = "idle"
    /\ get_logs_for_followup_reminder(FollowupHours) # <<>>

\* the records of the groups a follow-up run has selected
Selected(run) == UNION {Range(run.out[g]) : g \in 1..Len(run.out)}

\* C14: reminder_count is incremented only after the follow-up message was
\* delivered; when the delivery of a message fails, its records keep
\* reminder_count = 0 and each of them, while it stays pending, is selected
\* again by the next follow-up tick inside the reminder hours.
C14_FailedFollowUpIsRetried ==
    [][/\ FolSend(FALSE) => (logs' = logs /\ fol'.pc # "update")
       /\ (FolStart /\ is_within_reminder_hours) =>
              \A id \in fol.failed :
                  logs[id].status = "pending" =>
                      /\ logs[id].reminder_count = 0
                      /\ id \in Selected(fol')]_vars

\* C15: the evening sweep collects, per owner, every record of the current
\* day that is still pending (the chats of all of them, then each chat's
\* records) and, once the owner's message is delivered, marks each of them
\* "reminded" whatever its reminder_count.
C15_SweepCollectsAllPending ==
    [][/\ EveStart =>
              \A id \in LogIds :
                  (logs[id].status = "pending" /\ DayOfLog(id) = get_today)
                      => schedules[logs[id].schedule_id].chat_id \in Range(eve'.chats)
       /\ EveChat =>
              \A id \in LogIds :
                  ( /\ logs[id].status = "pending"
                    /\ DayOfLog(id) = DateOf(eve.now)
                    /\ schedules[logs[id].schedule_id].chat_id = Head(eve.chats) )
                      => id \in Selected(eve')
       /\ EveUpdate => logs'[Head(eve.upd)].status = "reminded"]_vars

\* C16: the terminal sweep finalizes every record still pending as the day
\* closes: once a day has ended, no record scheduled on that day is pending.
C16_NoPendingAfterDayEnd ==
    \A id \in LogIds : DayOfLog(id) < get_today => logs[id].status # "pending"

\* C17: once a record has status taken or missed, no follow-up tick and no
\* evening sweep that selects afterwards includes it: the groups a tick
\* notifies and then updates are the ones its selection returned, and the
\* selections leave confirmed records out.
C17_ConfirmedNotSelected ==
    [][/\ FolStart =>
              \A id \in LogIds :
                  logs[id].status \in {"taken", "missed"} => id \notin Selected(fol')
       /\ EveChat =>
              \A id \in LogIds :
                  logs[id].status \in {"taken", "missed"} => id \notin Selected(eve')]_vars

\* a record created in the morning was confirmed taken at an earlier hour
\* and, an hour or more after its time, is one the follow-up selection would
\* return were it still pending
C17_Witness ==
    \E id \in LogIds :
        /\ logs[id].status = "taken"
        /\ logs[id].taken_at < get_now
        /\ is_within_reminder_hours
        /\ fol.pc = "idle"
        /\ id \in Range(get_logs_for_followup_reminderAnyStatus(FollowupHours))

\* C18: a delivery failure never mutates record state: a failed initial
\* reminder leaves the records of its message in place, a failed follow-up
\* leaves reminder_count and last_reminder_at as they were and a failed sweep
\* message leaves the statuses; no update follows the failed send.
C18_DeliveryFailureKeepsRecords ==
    [][/\ \A r \in Runs :
              RemSend(r, FALSE) =>
                  /\ logs' = logs
                  /\ Range(Head(rem[r].out)) \subseteq 1..Len(logs')
       /\ FolSend(FALSE) => (logs' = logs /\ fol'.pc # "update")
       /\ EveSend(FALSE) => (logs' = logs /\ eve'.pc # "update")]_vars

\* a record whose initial reminder failed (no message with its buttons went
\* out) and whose follow-up failed as well is still there, pending and
\* never counted
C18_Witness ==
    \E id \in fol.failed :
        /\ id \notin emitted
        /\ logs[id].status = "pending"
        /\ logs[id].reminder_count = 0
        /\ logs[id].last_reminder_at = NoTime

IsDue(rule, d) ==
    \/ rule.frequency = "daily"
    \/ rule.frequency \in {"weekly", "specific_days"} /\ IsoWeekday(d) \in rule.days
    \/ rule.frequency = "monthly" /\ DayOfMonth(d) \in rule.days
    \/ /\ rule.frequency = "interval"
       /\ \/ rule.start_date = NoDate
          \/ \E k \in 0..(2 * DateWindow) : d = rule.start_date + k * rule.interval_days

\* the active schedules whose time is t and that are due on date d
ExactDue(t, d) ==
    {sid \in SchedIds : /\ schedules[sid].is_active
                         /\ schedules[sid].time = t
                         /\ IsDue(schedules[sid], d)}

\* C20: for every time of day and date the exact-time selection returns
\* exactly the active schedules of that time that are due on that date; the
\* tick goes through exactly those of its own minute and date, and it
\* creates a record for no other schedule.
C20_ExactTimeSelection ==
    [][\A r \in Runs :
          /\ RemStart(r) =>
                /\ \A t \in ClockHours :
                      \A d \in (get_today - 2)..(get_today + DateWindow) :
                          Range(get_schedules_for_time(t, d)) = ExactDue(t, d)
                /\ Range(rem'[r].todo) = ExactDue(TimeOf(get_now), get_today)
          /\ RemCreate(r, TRUE) =>
                /\ Head(rem[r].todo) \in ExactDue(TimeOf(rem[r].now), DateOf(rem[r].now))
                /\ logs'[Len(logs')].schedule_id = Head(rem[r].todo)]_vars

\* the 08:00 tick has created the record of the interval schedule, due
\* today, and of no other schedule
C20_Witness ==
    /\ rem[1].pc = "send"
    /\ Len(rem[1].pills) = 1
    /\ schedules[rem[1].pills[1].schedule_id].frequency = "interval"
    /\ \E sid \in SchedIds : schedules[sid].time # TimeOf(rem[1].now)

\* the dates the recurrence rule is evaluated on: 2024-01-01 .. 2024-03-31
RuleDates == 1..RuleDays

\* C21: for every date d, a schedule with frequency weekly or specific_days
\* is due on d if and only if d's ISO weekday (1 = Monday .. 7 = Sunday) is
\* in its days list; day 1 is a Monday, so day d has the weekday k of 1..7
\* with d - k a multiple of 7.
C21_WeeklyByIsoWeekday ==
    \A sid \in SchedIds :
        schedules[sid].frequency \in {"weekly", "specific_days"} =>
            \A d \in RuleDates :
                ShouldRemind(schedules[sid], d) <=>
                    \E k \in schedules[sid].days : k \in 1..7 /\ (d - k) % 7 = 0

\* the tick has selected a weekly schedule whose days list has today's
\* weekday but not every weekday
C21_Witness ==
    /\ rem[1].pc = "check"
    /\ Head(rem[1].todo) = 1
    /\ schedules[1].frequency = "weekly"
    /\ schedules[1].days # 1..7
    /\ \E k \in schedules[1].days : (DateOf(rem[1].now) - k) % 7 = 0

\* the day number before the first of each month of 2024
MonthStarts == <<0, 31, 60, 91, 121, 152, 182, 213, 244, 274, 305, 335>>

\* the day of the month of day d of 2024, read off the calendar
CalendarDay(d) ==
    LET m == CHOOSE i \in 1..12 :
                 MonthStarts[i] < d /\ (i = 12 \/ d <= MonthStarts[i + 1])
    IN  d - MonthStarts[m]

\* the days of February 2024
February == 32..60

\* C22: for every date d, a monthly schedule is due on d if and only if d's
\* day of the month is in its days list, with no end-of-month clamping: a
\* rule for day 31 (or 30) is due on no day of February.
C22_MonthlyNoClamping ==
    \A sid \in SchedIds :
        schedules[sid].frequency = "monthly" =>
            /\ \A d \in RuleDates :
                  ShouldRemind(schedules[sid], d) <=> CalendarDay(d) \in schedules[sid].days
            /\ \A d \in February \cap RuleDates :
                  (schedules[sid].days \subseteq {30, 31}) => ~ShouldRemind(schedules[sid], d)

\* the tick has selected a monthly schedule on its day of the month
C22_Witness ==
    /\ rem[1].pc = "check"
    /\ Head(rem[1].todo) = 1
    /\ schedules[1].frequency = "monthly"
    /\ CalendarDay(DateOf(rem[1].now)) \in schedules[1].days

\* C23: for every date d, an interval schedule with a start_date is due on d
\* if and only if d - start_date is >= 0 and an exact multiple of
\* interval_days: with interval 3 and anchor 2024-01-01 on 01-01, 01-04,
\* 01-07, ... and on no date in between or before the anchor.
C23_IntervalFromAnchor ==
    \A sid \in SchedIds :
        (schedules[sid].frequency = "interval" /\ schedules[sid].start_date # NoDate) =>
            \A d \in RuleDates :
                ShouldRemind(schedules[sid], d) <=>
                    \E k \in 0..RuleDays :
                        d = schedules[sid].start_date + k * schedules[sid].interval_days

\* the tick has selected an interval schedule of more than one day on a
\* date after its anchor
C23_Witness ==
    /\ rem[1].pc = "check"
    /\ Head(rem[1].todo) = 1
    /\ schedules[1].frequency = "interval"
    /\ schedules[1].interval_days > 1
    /\ schedules[1].start_date # NoDate
    /\ schedules[1].start_date < DateOf(rem[1].now)

\* C24: an interval schedule that has no start_date is due on every date,
\* whatever its interval_days.
C24_IntervalWithoutAnchor ==
    \A sid \in SchedIds :
        (schedules[sid].frequency = "interval" /\ schedules[sid].start_date = NoDate) =>
            \A d \in RuleDates : ShouldRemind(schedules[sid], d)

\* the tick has selected an interval schedule of three days that has no
\* start_date
C24_Witness ==
    /\ rem[1].pc = "check"
    /\ Head(rem[1].todo) = 1
    /\ schedules[1].frequency = "interval"
    /\ schedules[1].interval_days = 3
    /\ schedules[1].start_date = NoDate

\* C25: inactive schedules are excluded from all evaluation: while a
\* schedule is inactive no reminder tick selects it for a record, and no
\* follow-up tick or evening sweep selects one of its records for a
\* notification, whenever the record was created.
C25_InactiveExcluded ==
    [][/\ \A r \in Runs :
              RemStart(r) => \A sid \in Range(rem'[r].todo) : schedules[sid].is_active
       /\ FolStart =>
              \A id \in Selected(fol') : schedules[logs[id].schedule_id].is_active
       /\ EveChat =>
              \A id \in Selected(eve') : schedules[logs[id].schedule_id].is_active]_vars

\* the key of a record: the chat and the subscriber of its schedule
RecordKey(id) ==
    <<schedules[logs[id].schedule_id].chat_id, schedules[logs[id].schedule_id].telegram_id>>

\* groups is a partition of ids by RecordKey: every id is at exactly one
\* place of exactly one group, and two ids share a group iff they share the
\* key
PartitionByKey(groups, ids) ==
    LET places(id) == {p \in {<<g, j>> : g \in 1..Len(groups), j \in 1..MaxLogs + 1} :
                          p[2] <= Len(groups[p[1]]) /\ groups[p[1]][p[2]] = id}
        group(id) == (CHOOSE p \in places(id) : TRUE)[1]
    IN  /\ \A g \in 1..Len(groups) : groups[g] # <<>> /\ Range(groups[g]) \subseteq ids
        /\ \A id \in ids : Cardinality(places(id)) = 1
        /\ \A i \in ids : \A j \in ids :
              (group(i) = group(j)) <=> (RecordKey(i) = RecordKey(j))

\* C26: grouping partitions the due records of a tick by (chat id,
\* subscriber telegram id): every due record is in exactly one group, two
\* records share a group iff they share the key, and each group gets exactly
\* one send attempt.
C26_GroupingPartitions ==
    [][/\ \A r \in Runs :
              /\ (rem[r].pc # "send" /\ rem'[r].pc = "send") =>
                    PartitionByKey(rem[r].out, Range(PillIds(rem[r].pills)))'
              /\ (\E delivered \in BOOLEAN : RemSend(r, delivered)) =>
                    \/ rem'[r].pc = "send" /\ rem'[r].out = Tail(rem[r].out)
                    \/ rem'[r].pc = "idle" /\ Tail(rem[r].out) = <<>>
       /\ FolStart =>
              /\ fol'.pc = "send" =>
                    PartitionByKey(fol'.out,
                                   Range(get_logs_for_followup_reminder(FollowupHours)))
              /\ fol'.pc # "send" =>
                    (~is_within_reminder_hours
                        \/ get_logs_for_followup_reminder(FollowupHours) = <<>>)
       /\ (\E delivered \in BOOLEAN : FolSend(delivered)) =>
              \/ fol'.out = Tail(fol.out) /\ fol'.pc \in {"send", "update"}
              \/ fol'.pc = "idle" /\ Tail(fol.out) = <<>>]_vars

\* a follow-up tick has grouped the records of two subscribers of one chat
\* into two groups
C26_Witness ==
    /\ fol.pc = "send"
    /\ Len(fol.out) = 2
    /\ \E i \in Range(fol.out[1]), j \in Range(fol.out[2]) :
          /\ RecordKey(i)[1] = RecordKey(j)[1]
          /\ RecordKey(i)[2] # RecordKey(j)[2]

\* a run that is about to send has groups, and none of them is empty
HasGroups(run) == run.out # <<>> /\ \A g \in 1..Len(run.out) : run.out[g] # <<>>

\* C27: when nothing is due (no newly created record in a reminder tick, no
\* eligible record in a follow-up tick, no pending record in the sweep) no
\* group is produced and the run ends without a send; a run goes on to send
\* only with groups that have records.
C27_NothingDueNothingSent ==
    [][/\ \A r \in Runs :
              /\ rem'[r].pc = "send" => (HasGroups(rem'[r]) /\ rem'[r].pills # <<>>)
              /\ (RemStart(r) /\ get_schedules_for_time(TimeOf(get_now), get_today) = <<>>)
                    => rem'[r].pc = "idle"
              /\ (RemCheck(r) /\ rem[r].pills = <<>> /\ Tail(rem[r].todo) = <<>>
                              /\ check_existing_log(Head(rem[r].todo), DateOf(rem[r].now)))
                    => rem'[r].pc = "idle"
       /\ fol'.pc = "send" => HasGroups(fol')
       /\ (FolStart /\ get_logs_for_followup_reminder(FollowupHours) = <<>>)
              => fol'.pc = "idle"
       /\ eve'.pc = "send" => HasGroups(eve')
       /\ (EveStart /\ EveningChats(get_today) = <<>>) => eve'.pc = "idle"
       /\ (EveChat /\ \A today \in SystemTodays :
                         get_pending_logs_for_today(Head(eve.chats), today) = <<>>)
              => eve'.pc # "send"]_vars

\* every schedule due at this hour has its record and its reminder, no run
\* is under way: a reminder tick now finds nothing newly due
C27_Witness ==
    /\ rem[1].pc = "idle" /\ fol.pc = "idle" /\ eve.pc = "idle"
    /\ get_schedules_for_time(TimeOf(get_now), get_today) # <<>>
    /\ \A sid \in Range(get_schedules_for_time(TimeOf(get_now), get_today)) :
          check_existing_log(sid, get_today)
    /\ emitted = LogIds

\* C28: the evening sweep changes a record's status to "reminded" only if
\* the record is pending at the moment of the write: a confirmation written
\* between the sweep's read of the pending list and its update is not
\* overwritten.
C28_SweepWritesOnlyPending ==
    [][EveUpdate =>
          (logs[Head(eve.upd)].status # "pending" => logs' = logs)]_vars

\* C29: reminder_count and last_reminder_at are modified only on records
\* whose status is pending at the time of the update, also when a
\* confirmation or the sweep comes between the follow-up tick's selection
\* and its update_reminder_count.
C29_FollowUpCountsOnlyPending ==
    [][\A id \in LogIds :
          ( \/ logs'[id].reminder_count # logs[id].reminder_count
            \/ logs'[id].last_reminder_at # logs[id].last_reminder_at )
              => logs[id].status = "pending"]_vars

\* C30: a record created by a reminder tick on local date D is taken as a
\* record of day D by the dedup check for (schedule, D), by the follow-up
\* selection's same-day filter and by the sweep's today filter, whatever
\* the time of day.
C30_OneNotionOfDay ==
    \A id \in LogIds :
        LET D == DayOfLog(id)
        IN  /\ check_existing_log(logs[id].schedule_id, D)
            /\ get_today = D =>
                  /\ SqliteDate(logs[id].scheduled_time) = DateOf(SqliteNow)
                  /\ SqliteDate(logs[id].scheduled_time) = get_today

\* a record a running reminder tick still holds for its initial message
AwaitingInitial(id) ==
    \E r \in Runs :
        IF rem[r].pc = "send"
        THEN \E g \in 1..Len(rem[r].out) : id \in Range(rem[r].out[g])
        ELSE id \in Range(PillIds(rem[r].pills))

\* C31: the initial reminder is not retried: a stored record whose initial
\* message has not been delivered and that no running tick still holds (its
\* delivery failed) is never taken up by a reminder tick again and never
\* gets an initial reminder.
C31_InitialNotRetried ==
    [][\A id \in LogIds :
          (id \notin emitted /\ ~AwaitingInitial(id))
              => (id \notin emitted' /\ ~AwaitingInitial(id)')]_vars

\* a later tick of the same day is sending while a record whose delivery
\* failed is in store
C31_Witness ==
    \E id \in LogIds, r \in Runs :
        /\ id \notin emitted /\ ~AwaitingInitial(id)
        /\ rem[r].pc = "send"
        /\ rem[r].now > logs[id].scheduled_time
        /\ DateOf(rem[r].now) = DayOfLog(id)

\* sub lists elements of seq in the order they have in seq
KeepsOrder(sub, seq) ==
    /\ Range(sub) \subseteq Range(seq)
    /\ \A i \in 1..Len(sub) : \A j \in 1..Len(sub) :
          i < j => \E a \in 1..Len(seq) : \E b \in 1..Len(seq) :
                      a < b /\ seq[a] = sub[i] /\ seq[b] = sub[j]

\* the text lines and the button rows of a group's message keep the order
\* of seq
MessageKeepsOrder(group, seq) ==
    LET m == build_pills_text_and_keyboard(PillsOf(group))
    IN  /\ KeepsOrder(m.text, seq) /\ Range(m.text) = Range(group)
        /\ KeepsOrder(m.buttons, seq) /\ Range(m.buttons) = Range(group)

\* C32: within each group, the records appear in the message text and in
\* its button rows in the relative order in which the selection produced
\* them (the created records of a reminder tick, the rows of the follow-up
\* selection, the rows of the sweep's pending list).
C32_GroupKeepsSelectionOrder ==
    [][/\ \A r \in Runs :
              rem'[r].pc = "send" =>
                  \A g \in 1..Len(rem'[r].out) :
                      MessageKeepsOrder(rem'[r].out[g], PillIds(rem'[r].pills))
       /\ (FolStart /\ fol'.pc = "send") =>
              \A g \in 1..Len(fol'.out) :
                  MessageKeepsOrder(fol'.out[g], get_logs_for_followup_reminder(FollowupHours))
       /\ (EveChat /\ eve'.pc = "send") =>
              \E today \in SystemTodays :
                  \A g \in 1..Len(eve'.out) :
                      MessageKeepsOrder(eve'.out[g],
                                        get_pending_logs_for_today(Head(eve.chats), today))]_vars

\* a reminder tick is about to send one message for two records
C32_Witness ==
    \E r \in Runs :
        /\ rem[r].pc = "send"
        /\ \E g \in 1..Len(rem[r].out) : Len(rem[r].out[g]) = 2

\* the times of day and the dates the selections are asked for
QueryTimes == {0, 1, 8, 9, 20, 21}

QueryDates == (get_today - 2)..(get_today + DateWindow)

\* C33: range mode returns exactly the active schedules whose time lies in
\* [time_from, time_to] and that are due on the date by the recurrence check
\* of exact-time mode, each once and in ascending order of time; for
\* time_from = time_to = t it returns the schedules of the exact-time
\* selection for t.
C33_RangeSelection ==
    \A tf \in QueryTimes : \A tt \in QueryTimes : \A d \in QueryDates :
        LET res == get_schedules_for_time_range(tf, tt, d)
        IN  /\ Range(res) = {sid \in SchedIds :
                               /\ schedules[sid].is_active
                               /\ tf <= schedules[sid].time /\ schedules[sid].time <= tt
                               /\ ShouldRemind(schedules[sid], d)}
            /\ \A i \in 1..Len(res) : \A j \in 1..Len(res) :
                  i < j => (res[i] # res[j] /\ schedules[res[i]].time <= schedules[res[j]].time)
            /\ tf = tt => Range(res) = Range(get_schedules_for_time(tf, d))

\* a range over both schedules' times returns schedule 2 before schedule 1,
\* and the rows of a single time are a schedule of the exact-time selection
C33_Witness ==
    /\ \E tf \in QueryTimes : \E tt \in QueryTimes :
          tf < tt /\ get_schedules_for_time_range(tf, tt, get_today) = <<2, 1>>
    /\ \E t \in QueryTimes : Len(get_schedules_for_time_range(t, t, get_today)) = 1
    /\ \E sid \in SchedIds : schedules[sid].frequency = "interval" /\ ~ShouldRemind(schedules[sid], get_today + 1)

\* C35: the recurrence checks of the exact-time selection, of the range
\* selection and of the /today listing give the same due / not-due answer
\* for every schedule (any frequency, an unknown or empty one included, any
\* days list, interval and anchor) and every date.
C35_ThreeCopiesAgree ==
    \A sid \in SchedIds : \A d \in RuleDates :
        /\ ShouldRemind(schedules[sid], d) <=> ShouldRemindInRange(schedules[sid], d)
        /\ ShouldRemind(schedules[sid], d) <=> should_show(schedules[sid], d)

\* a table with a row of a frequency the code does not know, never listed,
\* next to an interval row that is due on some dates and not on others
C35_Witness ==
    /\ \E sid \in SchedIds :
          /\ schedules[sid].frequency \notin
                {"daily", "weekly", "specific_days", "monthly", "interval", ""}
          /\ \A d \in RuleDates : ~should_show(schedules[sid], d)
    /\ \E sid \in SchedIds :
          /\ schedules[sid].frequency = "interval"
          /\ \E d \in RuleDates : should_show(schedules[sid], d)
          /\ \E d \in RuleDates : ~ShouldRemindInRange(schedules[sid], d)

\* a schedules row that has been stored has interval_days >= 1 and day
\* selectors of its kind's range
ValidRule(row) ==
    /\ row.interval_days >= 1
    /\ row.frequency \in {"weekly", "specific_days"} => row.days \subseteq 1..7
    /\ row.frequency = "monthly" => row.days \subseteq 1..31

\* C34: every stored schedule has interval_days >= 1 and day selectors
\* within the range of its kind (ISO weekday 1..7 for weekly, day of month
\* 1..31 for monthly) after any sequence of schedule-creation inputs; a
\* rejected input (0, a negative number, 32, 366, a text that is no number)
\* stores nothing and leaves the conversation where it was.
C34_StoredRulesValid ==
    /\ [](\A sid \in SchedIds : schedules[sid] # EmptyRow => ValidRule(schedules[sid]))
    /\ [][answer' = "Rejected" => (schedules' = schedules /\ wizard' = wizard)]_vars

\* an interval text has just been rejected while a monthly schedule for the
\* 31st, stored by an earlier conversation, is in the table
C34_Witness ==
    /\ answer = "Rejected"
    /\ wizard.state = "waiting_for_interval"
    /\ \E sid \in SchedIds :
          /\ schedules[sid].present
          /\ schedules[sid].frequency = "monthly"
          /\ schedules[sid].days = {31}

\* C36: a schedule's start_date changes only in the last step of a Taken
\* confirmation (after its status write) of a record of that schedule, which
\* is an interval schedule, and nothing else of the row changes with it:
\* confirm_missed, rejected confirmations, Taken on other frequencies, the
\* legacy callbacks, reminder ticks, follow-up ticks and sweeps leave every
\* schedule as it is.
C36_AnchorOnlyByTakenInterval ==
    [][\A sid \in SchedIds :
          schedules'[sid] # schedules[sid] =>
              /\ schedules[sid].frequency = "interval"
              /\ answer' = "Ok"
              /\ \E h \in Handlers :
                    /\ conf[h].pc = "anchor" /\ conf'[h] = IdleConf
                    /\ conf[h].intent = "taken"
                    /\ logs[conf[h].log_id].schedule_id = sid
                    /\ logs[conf[h].log_id].taken_at # NoTime
                    /\ schedules'[sid] =
                          [schedules[sid] EXCEPT !.start_date = DateOf(conf[h].now)]]_vars

\* Taken has been confirmed on a record of the daily schedule, whose anchor
\* is as it was, and on a record of the interval schedule, whose anchor has
\* moved
C36_Witness ==
    \E i \in LogIds : \E j \in LogIds :
        /\ schedules[logs[i].schedule_id].frequency = "daily"
        /\ logs[i].status = "taken"
        /\ schedules[logs[i].schedule_id].start_date = StartDay
        /\ schedules[logs[j].schedule_id].frequency = "interval"
        /\ logs[j].status = "taken"
        /\ schedules[logs[j].schedule_id].start_date > StartDay - 2

\* one of the two legacy callbacks is the step taken
LegacyCallback ==
    \E log_id \in 1..(MaxLogs + 1), actor \in Users :
        not_taken_yet(log_id, actor) \/ remind_later(log_id, actor)

\* C38: the "not taken yet" and "remind later" callbacks change no intake
\* record and no schedule, whatever the record's status and whoever the
\* actor, and the follow-up selection and the sweep's selections are after
\* the callback what they were before it.
C38_LegacyCallbacksWriteNothing ==
    [][LegacyCallback =>
          /\ logs' = logs /\ schedules' = schedules
          /\ get_logs_for_followup_reminder(FollowupHours)'
                = get_logs_for_followup_reminder(FollowupHours)
          /\ EveningChats(get_today)' = EveningChats(get_today)
          /\ \A today \in SystemTodays :
                get_pending_logs_for_today(10, today)' = get_pending_logs_for_today(10, today)]_vars

\* the owner has just answered "not taken yet" for a pending record that
\* is due for its follow-up, next to a record that is confirmed
C38_Witness ==
    /\ answer = "NotTakenYet"
    /\ get_logs_for_followup_reminder(FollowupHours) # <<>>
    /\ \E id \in LogIds : logs[id].status \in {"taken", "missed"}

\* the schedule of a record, or its pill, has been deleted
Orphan(id) == ~schedules[logs[id].schedule_id].present

\* C37: after a pill or a schedule has been deleted no reminder tick
\* creates a record for it, no follow-up tick and no sweep sends a message
\* that includes one of its records, and a confirmation callback for one of
\* its records is rejected and changes nothing.
C37_DeletedIsSilent ==
    [][/\ \A r \in Runs : RemCreate(r, TRUE) => schedules[Head(rem[r].todo)].present
       /\ (\E delivered \in BOOLEAN : FolSend(delivered)) =>
              \A id \in Range(Head(fol.out)) : ~Orphan(id)
       /\ (\E delivered \in BOOLEAN : EveSend(delivered)) =>
              \A id \in Range(Head(eve.out)) : ~Orphan(id)
       /\ \A h \in Handlers, intent \in Intents, id \in LogIds, actor \in Users :
              (ConfRead(h, intent, id, actor) /\ Orphan(id)) =>
                  /\ answer' \in {"NotFound", "Forbidden"}
                  /\ UNCHANGED <<logs, schedules, conf>>]_vars


\* C39: notifications per record are bounded.  A record is included in at
\* most one delivered initial reminder, in at most one delivered follow-up
\* message and in at most one delivered sweep notification, and once the
\* sweep has marked it "reminded" no follow-up message includes it.
C39_NotificationsBounded ==
    /\ [](\A id \in LogIds : notified.followup[id] <= 1 /\ notified.sweep[id] <= 1)
    /\ [][/\ \A r \in Runs :
                 RemSend(r, TRUE) => Range(Head(rem[r].out)) \cap emitted = {}
          /\ (\E delivered \in BOOLEAN : FolSend(delivered)) =>
                 \A id \in Range(Head(fol.out)) : logs[id].status # "reminded"]_vars

\* a follow-up run is about to send a message that includes a record the
\* sweep has marked in the meantime
C39_FollowUpAfterSweep ==
    /\ fol.pc = "send"
    /\ fol.out # <<>>
    /\ \E id \in Range(Head(fol.out)) :
           logs[id].status = "reminded" /\ notified.sweep[id] = 1

====
